---- MODULE Spec2Model ----
(***************************************************************************)
(* Model of terraconf's resource config renderer                           *)
(* (pkg terraconf: GetResourceStateConfigString and its helpers).          *)
(*                                                                         *)
(* A Go string is a sequence of one-character strings, so that quoting,    *)
(* splitting on the key delimiter and the replacement of characters are    *)
(* computed character by character.  A Go interface{} value is a record    *)
(* tagged with its dynamic type in the field kind.  The iteration order of *)
(* a Go map is not defined by the language: every `range` over a map takes *)
(* its order from a permutation that the caller of the operator chooses.   *)
(***************************************************************************)
EXTENDS Integers, Sequences, FiniteSets, TLC

\* ------------------------------------------------------------------------
\* Strings
\* ------------------------------------------------------------------------

\* The characters that occur in keys, in ascending byte order.
ByteOrder ==
    << "#", "%", ".", "0", "1", "2", "3", "4", "5", "6", "7", "8", "9", "_",
       "a", "b", "c", "d", "e", "f", "g", "h", "i", "j", "k", "l", "m", "n",
       "o", "p", "q", "r", "s", "t", "u", "v", "w", "x", "y", "z" >>

Ord(c) == CHOOSE i \in 1..Len(ByteOrder) : ByteOrder[i] = c

\* Go's < on strings: bytewise lexicographic order.
RECURSIVE StrLess(_, _)
StrLess(a, b) ==
    IF b = <<>> THEN FALSE
    ELSE IF a = <<>> THEN TRUE
    ELSE IF Head(a) = Head(b) THEN StrLess(Tail(a), Tail(b))
    ELSE Ord(Head(a)) < Ord(Head(b))

HasPrefix(s, prefix) ==
    /\ Len(prefix) <= Len(s)
    /\ SubSeq(s, 1, Len(prefix)) = prefix

\* strings.Index(s, c) for a one-character c, as a 1-based position; 0 when
\* c does not occur.
IndexOf(s, c) ==
    IF \E i \in 1..Len(s) : s[i] = c
    THEN CHOOSE i \in 1..Len(s) : s[i] = c /\ \A j \in 1..(i - 1) : s[j] # c
    ELSE 0

RECURSIVE Concat(_)
Concat(ss) == IF ss = <<>> THEN <<>> ELSE Head(ss) \o Concat(Tail(ss))

\* ------------------------------------------------------------------------
\* Program constants and literals
\* ------------------------------------------------------------------------

tfStateKeyDelimiter == "."
tfStateKeyDelimiterReplacement == "_"

id == << "i", "d" >>
date == << "d", "a", "t", "e" >>
unknown == << "u", "n", "k", "n", "o", "w", "n" >>
QUOTE == "\""

\* ------------------------------------------------------------------------
\* interface{} values
\* ------------------------------------------------------------------------

IntKinds == { "int", "int8", "int16", "int32", "int64" }

StrV(s) == [kind |-> "string", s |-> s]
BoolV(b) == [kind |-> "bool", b |-> b]
IntV(k, n) == [kind |-> k, n |-> n]
ListV(items) == [kind |-> "list", items |-> items]
MapV(m) == [kind |-> "map", m |-> m]
NilV == [kind |-> "nil"]
\* A value of a dynamic type no switch of the package names (float64, uint,
\* []byte, []string, map[string]string, struct{}, ...).
OtherV(k) == [kind |-> k]

\* ------------------------------------------------------------------------
\* sanitizeResourceID
\* ------------------------------------------------------------------------

\* strings.Replace(s, old, new, -1) for one-character old and new.
RECURSIVE ReplaceAll(_, _, _)
ReplaceAll(s, old, new) ==
    IF s = <<>> THEN <<>>
    ELSE << IF Head(s) = old THEN new ELSE Head(s) >>
         \o ReplaceAll(Tail(s), old, new)

\* Mutant: only the first delimiter is replaced (strings.Replace with n = 1).
sanitizeResourceID_first(rid) ==
    IF IndexOf(rid, tfStateKeyDelimiter) = 0 THEN rid
    ELSE SubSeq(rid, 1, IndexOf(rid, tfStateKeyDelimiter) - 1)
         \o << tfStateKeyDelimiterReplacement >>
         \o SubSeq(rid, IndexOf(rid, tfStateKeyDelimiter) + 1, Len(rid))

sanitizeResourceID(rid) ==
    ReplaceAll(rid, tfStateKeyDelimiter, tfStateKeyDelimiterReplacement)

\* ------------------------------------------------------------------------
\* Primitive values
\* ------------------------------------------------------------------------

isPrimitive(rawValue) ==
    CASE rawValue.kind = "string" -> TRUE
      [] rawValue.kind = "bool" -> TRUE
      [] rawValue.kind \in IntKinds -> TRUE
      [] OTHER -> FALSE

\* strconv.Quote: the characters between double quotes, with the double
\* quote, the backslash and the newline escaped.
RECURSIVE Escape(_)
Escape(s) ==
    IF s = <<>> THEN <<>>
    ELSE (CASE Head(s) = QUOTE -> << "\\", QUOTE >>
            [] Head(s) = "\\" -> << "\\", "\\" >>
            [] Head(s) = "\n" -> << "\\", "n" >>
            [] OTHER -> << Head(s) >>)
         \o Escape(Tail(s))

Quote(s) == << QUOTE >> \o Escape(s) \o << QUOTE >>

Digits == << "0", "1", "2", "3", "4", "5", "6", "7", "8", "9" >>

RECURSIVE NatToStr(_)
NatToStr(n) ==
    IF n < 10 THEN << Digits[n + 1] >>
    ELSE NatToStr(n \div 10) \o << Digits[(n % 10) + 1] >>

\* fmt.Sprintf("%d", v)
FormatInt(n) == IF n < 0 THEN << "-" >> \o NatToStr(-n) ELSE NatToStr(n)

\* fmt.Sprintf("%t", v)
FormatBool(b) ==
    IF b THEN << "t", "r", "u", "e" >> ELSE << "f", "a", "l", "s", "e" >>

\* Mutant: the integer case names int, int32 and int64 only.
getPrimitiveValueString_narrow(rawValue) ==
    CASE rawValue.kind = "string" -> Quote(rawValue.s)
      [] rawValue.kind = "bool" -> << QUOTE >> \o FormatBool(rawValue.b) \o << QUOTE >>
      [] rawValue.kind \in { "int", "int32", "int64" } -> FormatInt(rawValue.n)
      [] OTHER -> unknown

getPrimitiveValueString(rawValue) ==
    CASE rawValue.kind = "string" -> Quote(rawValue.s)
      [] rawValue.kind = "bool" -> << QUOTE >> \o FormatBool(rawValue.b) \o << QUOTE >>
      [] rawValue.kind \in IntKinds -> FormatInt(rawValue.n)
      [] OTHER -> unknown

getDependsString(dependencies) ==
    IF Len(dependencies) > 0
    THEN << "d", "e", "p", "e", "n", "d", "s", "_", "o", "n", " ", "=", " ", "[", "\n" >>
         \o Concat([i \in 1..Len(dependencies) |->
                        getPrimitiveValueString(StrV(dependencies[i]))])
         \o << "]", "\n" >>
    ELSE <<>>

\* Mutant: the empty string is dropped whatever the attribute is called.
getPrimitiveAttributeString_anyName(k, rawValue) ==
    LET v == getPrimitiveValueString(rawValue)
    IN  IF v = << QUOTE, QUOTE >>
        THEN <<>>
        ELSE k \o << " ", "=", " " >> \o v \o << "\n" >>

getPrimitiveAttributeString(k, rawValue) ==
    LET v == getPrimitiveValueString(rawValue)
    IN  IF k = date /\ v = << QUOTE, QUOTE >>
        THEN <<>>
        ELSE k \o << " ", "=", " " >> \o v \o << "\n" >>

getPrimitiveAttributeListString(attrName, list) ==
    attrName \o << " ", "=", " ", "[", "\n" >>
    \o Concat([i \in 1..Len(list) |->
                   getPrimitiveValueString(list[i]) \o << "," >>])
    \o << "]", "\n" >>

\* ------------------------------------------------------------------------
\* Iteration over Go maps, sort.Strings
\* ------------------------------------------------------------------------

\* The least string of a non-empty set of strings.
MinStr(S) == CHOOSE a \in S : \A b \in S : a = b \/ StrLess(a, b)

RECURSIVE Ascending(_)
Ascending(S) ==
    IF S = {} THEN <<>> ELSE << MinStr(S) >> \o Ascending(S \ { MinStr(S) })

\* The order in which one `for k := range m` visits the keys S of m.  The
\* language leaves it open; `order` (a permutation of 1..n) selects it: the
\* i-th key in ascending order is visited at rank order[i].  Every order of
\* a map of at most Len(order) keys is selected by some permutation.
RangeKeys(S, order) ==
    LET ks == Ascending(S)
        n == Len(ks)
        at(i) == IF i <= Len(order) THEN order[i] ELSE i
        rank(i) == Cardinality({ j \in 1..n : at(j) < at(i) }) + 1
    IN  [r \in 1..n |-> ks[CHOOSE i \in 1..n : rank(i) = r]]

\* sort.Strings: in-place ascending sort of a slice (insertion into the
\* sorted prefix).
RECURSIVE InsertSorted(_, _)
InsertSorted(sorted, a) ==
    IF sorted = <<>> THEN << a >>
    ELSE IF StrLess(a, Head(sorted)) THEN << a >> \o sorted
    ELSE << Head(sorted) >> \o InsertSorted(Tail(sorted), a)

RECURSIVE SortStrings(_)
SortStrings(list) ==
    IF list = <<>> THEN <<>>
    ELSE InsertSorted(SortStrings(SubSeq(list, 1, Len(list) - 1)), list[Len(list)])

\* ------------------------------------------------------------------------
\* Attribute rendering
\* ------------------------------------------------------------------------

RECURSIVE getMapAttributeString(_, _, _)
RECURSIVE getAttributeString(_, _, _)

getMapAttributeString(attrName, m, order) ==
    LET ks == RangeKeys(DOMAIN m, order)
    IN  attrName \o << " ", "{", "\n" >>
        \o Concat([i \in 1..Len(ks) |->
                       IF isPrimitive(m[ks[i]])
                       THEN getPrimitiveAttributeString(ks[i], m[ks[i]])
                       ELSE getAttributeString(ks[i], m[ks[i]], order)])
        \o << "}", "\n" >>

\* Mutant: the empty list and the empty map are rendered too.
getAttributeString_rendersEmpty(attrName, attrRawVal, order) ==
    CASE attrRawVal.kind = "list" ->
           LET v == attrRawVal.items
           IN  IF Len(v) = 0 \/ isPrimitive(v[1])
               THEN getPrimitiveAttributeListString(attrName, v)
               ELSE Concat([i \in 1..Len(v) |->
                               IF v[i].kind = "map"
                               THEN getMapAttributeString(attrName, v[i].m, order)
                               ELSE <<>>])
      [] attrRawVal.kind = "map" ->
           getMapAttributeString(attrName, attrRawVal.m, order)
      [] OTHER -> getPrimitiveAttributeString(attrName, attrRawVal)

\* The text of one attribute.  An item whose type assertion
\* item.(map[string]interface{}) fails contributes no text here: the run
\* aborts there, which attributePanics decides.
getAttributeString(attrName, attrRawVal, order) ==
    CASE attrRawVal.kind = "list" ->
           LET v == attrRawVal.items
           IN  IF Len(v) > 0 /\ isPrimitive(v[1])
               THEN getPrimitiveAttributeListString(attrName, v)
               ELSE Concat([i \in 1..Len(v) |->
                               IF v[i].kind = "map"
                               THEN getMapAttributeString(attrName, v[i].m, order)
                               ELSE <<>>])
      [] attrRawVal.kind = "map" ->
           IF Cardinality(DOMAIN attrRawVal.m) > 0
           THEN getMapAttributeString(attrName, attrRawVal.m, order)
           ELSE <<>>
      [] OTHER -> getPrimitiveAttributeString(attrName, attrRawVal)

\* getAttributeString panics: somewhere in the value a list that is not a
\* list of primitives holds an item that is not a map[string]interface{}.
RECURSIVE attributePanics(_)
attributePanics(attrRawVal) ==
    CASE attrRawVal.kind = "list" ->
           LET v == attrRawVal.items
           IN  IF Len(v) > 0 /\ isPrimitive(v[1])
               THEN FALSE
               ELSE \E i \in 1..Len(v) :
                        \/ v[i].kind # "map"
                        \/ attributePanics(v[i])
      [] attrRawVal.kind = "map" ->
           \E k \in DOMAIN attrRawVal.m :
               /\ ~isPrimitive(attrRawVal.m[k])
               /\ attributePanics(attrRawVal.m[k])
      [] OTHER -> FALSE

\* ------------------------------------------------------------------------
\* The flat attribute map: getUniqueAttributeNames and flatmap.Expand
\* ------------------------------------------------------------------------

\* strings.SplitN(k, tfStateKeyDelimiter, 2)[0]
FirstSegment(k) ==
    IF IndexOf(k, tfStateKeyDelimiter) = 0 THEN k
    ELSE SubSeq(k, 1, IndexOf(k, tfStateKeyDelimiter) - 1)

\* The map of base names, each with the value false.
getUniqueAttributeNames(attrMap) ==
    [name \in { FirstSegment(k) : k \in DOMAIN attrMap } |-> FALSE]

\* strconv.ParseInt of a string of decimal digits.
RECURSIVE ParseNat(_)
ParseNat(s) ==
    IF s = <<>> THEN 0
    ELSE 10 * ParseNat(SubSeq(s, 1, Len(s) - 1))
         + ((CHOOSE d \in 1..10 : Digits[d] = s[Len(s)]) - 1)

RECURSIVE Expand(_, _)
RECURSIVE expandArray(_, _)
RECURSIVE expandMap(_, _)

\* flatmap.Expand(m, key): the value stored under key itself, else the list
\* counted by key.#, else the map of the keys below key., else nil.
Expand(m, key) ==
    IF key \in DOMAIN m
    THEN (CASE m[key] = << "t", "r", "u", "e" >> -> BoolV(TRUE)
            [] m[key] = << "f", "a", "l", "s", "e" >> -> BoolV(FALSE)
            [] OTHER -> StrV(m[key]))
    ELSE IF (key \o << ".", "#" >>) \in DOMAIN m
    THEN expandArray(m, key)
    ELSE IF \E k \in DOMAIN m : HasPrefix(k, key \o << "." >>)
    THEN expandMap(m, key \o << "." >>)
    ELSE NilV

expandArray(m, prefix) ==
    LET num == ParseNat(m[prefix \o << ".", "#" >>])
    IN  ListV([i \in 1..num |-> Expand(m, prefix \o << "." >> \o NatToStr(i - 1))])

expandMap(m, prefix) ==
    LET below == { SubSeq(k, Len(prefix) + 1, Len(k)) :
                       k \in { x \in DOMAIN m : HasPrefix(x, prefix) } }
        keys == { FirstSegment(r) : r \in below } \ { << "%" >> }
    IN  MapV([k \in keys |-> Expand(m, prefix \o k)])

\* ------------------------------------------------------------------------
\* formatConfig and the block-text formatter (hcl printer.Format)
\* ------------------------------------------------------------------------

Letters == { ByteOrder[i] : i \in 14..Len(ByteOrder) }
DigitChars == { Digits[i] : i \in 1..10 }
IdentChars == Letters \cup DigitChars \cup { "-", "." }
Punctuation == { "=", "{", "}", "[", "]", "," }

\* The first position at or after i whose character is not in set.
RECURSIVE ScanWhile(_, _, _)
ScanWhile(s, i, set) ==
    IF i <= Len(s) /\ s[i] \in set THEN ScanWhile(s, i + 1, set) ELSE i

\* The position of the double quote that closes a string literal whose body
\* starts at i; 0 when the literal is not terminated on its line.
RECURSIVE ScanString(_, _)
ScanString(s, i) ==
    IF i > Len(s) \/ s[i] = "\n" THEN 0
    ELSE IF s[i] = QUOTE THEN i
    ELSE IF s[i] = "\\" THEN (IF i + 1 > Len(s) THEN 0 ELSE ScanString(s, i + 2))
    ELSE ScanString(s, i + 1)

Tok(type, s, i, j) == [type |-> type, text |-> SubSeq(s, i, j)]

\* The scanner: the tokens of s from position i on.
RECURSIVE Lex(_, _)
Lex(s, i) ==
    IF i > Len(s) THEN <<>>
    ELSE IF s[i] \in { " ", "\n" } THEN Lex(s, i + 1)
    ELSE IF s[i] \in Punctuation THEN << Tok(s[i], s, i, i) >> \o Lex(s, i + 1)
    ELSE IF s[i] = QUOTE
    THEN (LET j == ScanString(s, i + 1)
          IN  IF j = 0 THEN << Tok("ILLEGAL", s, i, Len(s)) >>
              ELSE << Tok("STRING", s, i, j) >> \o Lex(s, j + 1))
    ELSE IF s[i] \in Letters
    THEN (LET j == ScanWhile(s, i, IdentChars)
              t == SubSeq(s, i, j - 1)
          IN  << Tok(IF t \in { FormatBool(TRUE), FormatBool(FALSE) }
                     THEN "BOOL" ELSE "IDENT", s, i, j - 1) >>
              \o Lex(s, j))
    ELSE IF s[i] \in DigitChars \/ (s[i] = "-" /\ i < Len(s) /\ s[i + 1] \in DigitChars)
    THEN (LET j == ScanWhile(s, i + 1, DigitChars)
          IN  << Tok("NUMBER", s, i, j - 1) >> \o Lex(s, j))
    ELSE << Tok("ILLEGAL", s, i, i) >>

Literals == { "STRING", "NUMBER", "BOOL" }

TypeAt(ts, i) == IF i >= 1 /\ i <= Len(ts) THEN ts[i].type ELSE "EOF"

\* The parser.  Each operator takes the position of the next token and
\* returns the position after what it parsed, or 0 for a syntax error.
RECURSIVE ParseValue(_, _)
RECURSIVE ParseList(_, _, _)
RECURSIVE ParseItem(_, _)
RECURSIVE ParseItems(_, _)

ParseObject(ts, i) ==
    LET j == ParseItems(ts, i)
    IN  IF j # 0 /\ TypeAt(ts, j) = "}" THEN j + 1 ELSE 0

ParseValue(ts, i) ==
    CASE TypeAt(ts, i) \in Literals -> i + 1
      [] TypeAt(ts, i) = "{" -> ParseObject(ts, i + 1)
      [] TypeAt(ts, i) = "[" -> ParseList(ts, i + 1, FALSE)
      [] OTHER -> 0

ParseList(ts, i, needComma) ==
    IF needComma /\ TypeAt(ts, i) \notin { ",", "]" } THEN 0
    ELSE CASE TypeAt(ts, i) \in Literals -> ParseList(ts, i + 1, TRUE)
           [] TypeAt(ts, i) = "," -> ParseList(ts, i + 1, FALSE)
           [] TypeAt(ts, i) \in { "{", "[" } ->
                LET j == ParseValue(ts, i)
                IN  IF j = 0 THEN 0 ELSE ParseList(ts, j, TRUE)
           [] TypeAt(ts, i) = "]" -> i + 1
           [] OTHER -> 0

ParseItem(ts, i) ==
    LET j == ScanWhile([k \in 1..Len(ts) |-> ts[k].type], i, { "IDENT", "STRING" })
    IN  IF j = i THEN 0
        ELSE CASE TypeAt(ts, j) = "=" -> IF j - i > 1 THEN 0 ELSE ParseValue(ts, j + 1)
               [] TypeAt(ts, j) = "{" -> ParseObject(ts, j + 1)
               [] OTHER -> 0

ParseItems(ts, i) ==
    IF TypeAt(ts, i) \in { "EOF", "}" } THEN i
    ELSE LET j == ParseItem(ts, i)
         IN  IF j = 0 THEN 0
             ELSE ParseItems(ts, IF TypeAt(ts, j) = "," THEN j + 1 ELSE j)

\* printer.Format(src): an error when src is not block syntax; else src
\* printed again.  The printed text is modelled up to its layout: the texts
\* of the tokens in their order, one to a line.
PrinterFormat(src) ==
    LET ts == Lex(src, 1)
    IN  IF ParseItems(ts, 1) # Len(ts) + 1
        THEN [err |-> TRUE, b |-> <<>>]
        ELSE [err |-> FALSE,
              b |-> Concat([k \in 1..Len(ts) |-> ts[k].text \o << "\n" >>])]

formatConfig(s) ==
    LET r == PrinterFormat(s)
    IN  IF r.err THEN <<>> ELSE r.b

\* ------------------------------------------------------------------------
\* GetResourceStateConfigString
\* ------------------------------------------------------------------------

\* attrNames after the loop over defaults: a name that is no key of the
\* names found in state is added with the value true.
addDefaultNames(names, defs) ==
    [n \in (DOMAIN names) \cup (DOMAIN defs) |->
        IF n \in DOMAIN names THEN names[n] ELSE TRUE]

\* Mutant: the call of sort.Strings is missing.
sortAttrNames_unsorted(attrNames, order) ==
    RangeKeys(DOMAIN attrNames, order)

\* sortedAttrNames: the keys appended in the order of the range loop, then
\* sorted.
sortAttrNames(attrNames, order) ==
    SortStrings(RangeKeys(DOMAIN attrNames, order))

\* Mutant: a default wins whenever it exists.
attrValue_defaultWins(attrs, defs, attrNames, attrName) ==
    IF attrName \in DOMAIN defs THEN defs[attrName] ELSE Expand(attrs, attrName)

\* The value the loop body hands to getAttributeString for attrName.
attrValue(attrs, defs, attrNames, attrName) ==
    LET attrRawVal == Expand(attrs, attrName)
        useDefault == attrNames[attrName]
        defaultExists == attrName \in DOMAIN defs
    IN  IF useDefault /\ defaultExists THEN defs[attrName] ELSE attrRawVal

\* Mutant: the loop skips nothing.
keptNames_all(sortedAttrNames, excl) == sortedAttrNames

\* The names of sortedAttrNames the loop does not skip.
keptNames(sortedAttrNames, excl) ==
    SelectSeq(sortedAttrNames, LAMBDA n : n \notin excl)

\* What each iteration of the loop that is not skipped does: the name, the
\* value handed to getAttributeString and the text appended to s.
attrPieces(attrs, defs, attrNames, kept, order) ==
    [i \in 1..Len(kept) |->
        [name |-> kept[i],
         value |-> attrValue(attrs, defs, attrNames, kept[i]),
         text |-> getAttributeString(
                      kept[i], attrValue(attrs, defs, attrNames, kept[i]), order)]]

headerString(st) ==
    << "r", "e", "s", "o", "u", "r", "c", "e", " ", QUOTE >> \o st.Type
    \o << QUOTE, " ", QUOTE >> \o sanitizeResourceID(st.Primary.ID)
    \o << QUOTE, " ", "{", "\n" >>

\* Mutant: the set is made anew with id in it instead of id being added.
excludeID_reset(excl) == { id }

\* excludes["id"] = struct{}{} on the caller's set.
excludeID(excl) == excl \cup { id }

\* One call: the caller's excludes after it, the text s handed to
\* formatConfig with the pieces it is made of, and the outcome: the string
\* returned, or a panic from a failed type assertion.
GetResourceStateConfigString(st, defs, excl, order) ==
    LET attrs == st.Primary.Attributes
        excl2 == excludeID(excl)
        attrNames == addDefaultNames(getUniqueAttributeNames(attrs), defs)
        kept == keptNames(sortAttrNames(attrNames, order), excl2)
        pieces == attrPieces(attrs, defs, attrNames, kept, order)
        depends == getDependsString(st.Dependencies)
        s == headerString(st)
             \o Concat([i \in 1..Len(pieces) |-> pieces[i].text])
             \o depends \o << "}", "\n" >>
        panics == \E i \in 1..Len(pieces) : attributePanics(pieces[i].value)
    IN  [excludes |-> excl2,
         outcome |-> IF panics THEN "panic" ELSE "returned",
         pieces |-> pieces,
         depends |-> depends,
         s |-> s,
         ret |-> IF panics THEN <<>> ELSE formatConfig(s)]

\* ------------------------------------------------------------------------
\* Inputs
\* ------------------------------------------------------------------------

MaxDeps == 2
MaxCalls == 2

\* A Go map literal: the function with the given key/value pairs.
GoMap(pairs) ==
    [k \in { pairs[i][1] : i \in 1..Len(pairs) } |->
        pairs[CHOOSE i \in 1..Len(pairs) : pairs[i][1] = k][2]]

\* Flat attribute maps as the state reader delivers them: plain keys, a
\* map (t.%) with two entries and with none, a list (l.#) with two
\* elements and with none, a list of one block (b.#).
AttrMaps ==
    { GoMap(<<>>),
      GoMap(<< << id, << "i" >> >>, << << "n" >>, << "v" >> >> >>),
      GoMap(<< << << "t", ".", "%" >>, << "2" >> >>,
               << << "t", ".", "a" >>, << "v" >> >>,
               << << "t", ".", "b" >>, << "w" >> >> >>),
      GoMap(<< << << "t", ".", "%" >>, << "0" >> >>,
               << << "l", ".", "#" >>, << "0" >> >> >>),
      GoMap(<< << << "l", ".", "#" >>, << "2" >> >>,
               << << "l", ".", "0" >>, << "v" >> >>,
               << << "l", ".", "1" >>, << "w" >> >>,
               << << "n" >>, << "t", "r", "u", "e" >> >> >>),
      GoMap(<< << << "b", ".", "#" >>, << "1" >> >>,
               << << "b", ".", "0", ".", "k" >>, << "v" >> >> >>) }

DefaultMaps ==
    { GoMap(<<>>),
      GoMap(<< << << "n" >>, IntV("int", 7) >> >>),
      GoMap(<< << << "t" >>, MapV(GoMap(<< << << "a" >>, StrV(<< "x" >>) >>,
                                           << << "b" >>, StrV(<< "y" >>) >> >>)) >> >>),
      GoMap(<< << id, StrV(<< "z" >>) >>, << << "l" >>, ListV(<<>>) >> >>),
      GoMap(<< << << "f" >>, OtherV("float64") >> >>),
      GoMap(<< << << "l" >>, ListV(<< ListV(<<>>) >>) >> >>) }

ExcludeSets == { {}, { << "n" >>, << "t" >> } }

ResourceIDs == { << "a", ".", "b" >>, << "a", "b" >> }

\* The i-th dependency name: z, y, x, ... (a list of them is in descending
\* order, so sorting it would show).
DepName(i) == << ByteOrder[Len(ByteOrder) + 1 - i] >>

DepLists == { [i \in 1..n |-> DepName(i)] : n \in 0..MaxDeps }

States ==
    [Type : { << "w" >> },
     Primary : [ID : ResourceIDs, Attributes : AttrMaps],
     Dependencies : DepLists]

\* The most keys any map ranged over has.
MaxKeys ==
    LET sizes == { Cardinality((DOMAIN getUniqueAttributeNames(a)) \cup (DOMAIN d)) :
                       a \in AttrMaps, d \in DefaultMaps }
    IN  CHOOSE n \in sizes : \A k \in sizes : k <= n

Orders == Permutations(1..MaxKeys)

\* ------------------------------------------------------------------------
\* The renderer called on one resource
\* ------------------------------------------------------------------------

VARIABLES state, defaults, excludes, calls, arg, ret

vars == << state, defaults, excludes, calls, arg, ret >>

None == [fn |-> "none"]

Init ==
    /\ state \in States
    /\ defaults \in DefaultMaps
    /\ excludes \in ExcludeSets
    /\ calls = <<>>
    /\ arg = None
    /\ ret = None

\* The caller calls GetResourceStateConfigString(state, defaults, excludes).
Render ==
    /\ arg = None
    /\ Len(calls) < MaxCalls
    /\ \E order \in Orders :
          LET r == GetResourceStateConfigString(state, defaults, excludes, order)
          IN  /\ excludes' = r.excludes
              /\ calls' = Append(calls, [outcome |-> r.outcome, pieces |-> r.pieces,
                                         depends |-> r.depends, s |-> r.s, ret |-> r.ret])
    /\ UNCHANGED << state, defaults, arg, ret >>

Next == Render

Spec == Init /\ [][Next]_vars

\* ------------------------------------------------------------------------
\* The helpers called on their own
\* ------------------------------------------------------------------------

MaxStrLen == 2
MaxInt == 12
MaxIDLen == 3
MaxListLen == 2

\* All sequences over S of length lo..hi.
SeqsOver(S, lo, hi) == UNION { [1..n -> S] : n \in lo..hi }

RawValues ==
    { StrV(v) : v \in SeqsOver({ "a", QUOTE, "\\", "\n" }, 0, MaxStrLen) }
    \cup { BoolV(b) : b \in BOOLEAN }
    \cup { IntV(k, n) : k \in IntKinds, n \in (-MaxInt)..MaxInt }
    \cup { OtherV(k) : k \in { "float64", "uint", "[]byte", "[]string",
                               "map[string]string", "struct{}" } }
    \cup { NilV, ListV(<<>>), MapV(<<>>) }

\* What a list handed to getAttributeString may hold: a primitive, a map, a
\* list, nil.
ListItems ==
    { StrV(<< "p" >>),
      MapV([k \in { << "a" >> } |-> StrV(<< "x" >>)]),
      ListV(<<>>),
      NilV }

ListValues == { ListV(items) : items \in SeqsOver(ListItems, 0, MaxListLen) }

UnitArgs ==
    [fn : { "isPrimitive", "getPrimitiveValueString" }, rawValue : RawValues]
    \cup [fn : { "getAttributeString" }, attrName : { << "l" >> },
          attrRawVal : ListValues]
    \cup [fn : { "getPrimitiveAttributeString" },
          k : { date, << "n" >>, << "d" >> }, rawValue : RawValues]
    \cup [fn : { "sanitizeResourceID" },
          id : SeqsOver({ "a", ".", "_" }, 0, MaxIDLen)]

\* Either one helper is about to be called on arg, or the renderer is about
\* to be called on a resource that has an ID and nothing else.
InitUnits ==
    /\ defaults = <<>>
    /\ excludes = {}
    /\ calls = <<>>
    /\ ret = None
    /\ \/ /\ arg \in UnitArgs
          /\ state = [Type |-> << "w" >>,
                      Primary |-> [ID |-> << "a" >>, Attributes |-> <<>>],
                      Dependencies |-> <<>>]
       \/ /\ arg = None
          /\ state \in [Type : { << "w" >> },
                        Primary : [ID : SeqsOver({ "a", ".", "_" }, 0, MaxIDLen),
                                   Attributes : { <<>> }],
                        Dependencies : { <<>> }]

Returns(fn, val) ==
    /\ arg.fn = fn
    /\ ret = None
    /\ ret' = [fn |-> fn, val |-> val]
    /\ UNCHANGED << state, defaults, excludes, calls, arg >>

CallIsPrimitive ==
    /\ arg.fn = "isPrimitive"
    /\ Returns("isPrimitive", isPrimitive(arg.rawValue))

CallGetPrimitiveValueString ==
    /\ arg.fn = "getPrimitiveValueString"
    /\ Returns("getPrimitiveValueString", getPrimitiveValueString(arg.rawValue))

CallGetPrimitiveAttributeString ==
    /\ arg.fn = "getPrimitiveAttributeString"
    /\ Returns("getPrimitiveAttributeString",
               getPrimitiveAttributeString(arg.k, arg.rawValue))

CallSanitizeResourceID ==
    /\ arg.fn = "sanitizeResourceID"
    /\ Returns("sanitizeResourceID", sanitizeResourceID(arg.id))

\* getAttributeString called on its own: it returns its text, or the
\* goroutine panics at the type assertion and nothing is returned.
CallGetAttributeString ==
    /\ arg.fn = "getAttributeString"
    /\ ret = None
    /\ \E order \in Orders :
          ret' = IF attributePanics(arg.attrRawVal)
                 THEN [fn |-> "getAttributeString", outcome |-> "panic", val |-> <<>>]
                 ELSE [fn |-> "getAttributeString", outcome |-> "returned",
                       val |-> getAttributeString(arg.attrName, arg.attrRawVal, order)]
    /\ UNCHANGED << state, defaults, excludes, calls, arg >>

NextUnits ==
    \/ CallIsPrimitive
    \/ CallGetPrimitiveValueString
    \/ CallGetPrimitiveAttributeString
    \/ CallSanitizeResourceID
    \/ CallGetAttributeString
    \/ Render

SpecUnits == InitUnits /\ [][NextUnits]_vars

\* ------------------------------------------------------------------------
\* Properties
\* ------------------------------------------------------------------------

\* The top-level names that have a key in the state attribute map.
StateNames ==
    LET keys == DOMAIN state.Primary.Attributes
        prefixes == UNION { { SubSeq(k, 1, j) : j \in 0..Len(k) } : k \in keys }
    IN  { n \in prefixes :
            /\ \A i \in 1..Len(n) : n[i] # "."
            /\ \E k \in keys : k = n \/ HasPrefix(k, n \o << "." >>) }

Texts(pieces) == Concat([i \in 1..Len(pieces) |-> pieces[i].text])

IsEmptyList(v) == v.kind = "list" /\ Len(v.items) = 0
IsEmptyMap(v) == v.kind = "map" /\ DOMAIN v.m = {}

\* C1 (Determinism): any two calls of GetResourceStateConfigString on the
\* same state, defaults and excludes end the same way and return the same
\* text, whatever order the maps are iterated in.
C1_Determinism ==
    \A i, j \in 1..Len(calls) :
        /\ calls[i].outcome = calls[j].outcome
        /\ calls[i].ret = calls[j].ret

\* C2 (Sort stability): the attributes a call emits are those of the
\* non-excluded names of state and defaults, each once, in strictly
\* ascending order of the name, and the text built is the header, their
\* texts in that order, the dependencies and the closing brace.
C2_SortedAttributes ==
    \A c \in 1..Len(calls) :
        LET ps == calls[c].pieces
        IN  /\ \A i, j \in 1..Len(ps) : i < j => StrLess(ps[i].name, ps[j].name)
            /\ { ps[i].name : i \in 1..Len(ps) }
                 = (StateNames \cup DOMAIN defaults) \ excludes
            /\ calls[c].s = headerString(state) \o Texts(ps)
                              \o calls[c].depends \o << "}", "\n" >>

\* A call has emitted three attributes, one of a name that only defaults
\* has, placed before one of a name of state.
C2_Witness ==
    \E c \in 1..Len(calls) :
        LET ps == calls[c].pieces
        IN  /\ Len(ps) >= 3
            /\ \E i, j \in 1..Len(ps) :
                  /\ i < j
                  /\ ps[i].name \notin StateNames
                  /\ ps[j].name \in StateNames

\* C3 (Exclusion wins): no call emits an attribute whose name is in the
\* excludes set or is "id".
C3_ExcludedAbsent ==
    \A c \in 1..Len(calls) :
        \A i \in 1..Len(calls[c].pieces) :
            calls[c].pieces[i].name \notin (excludes \cup { id })

\* A call was made with the name t excluded while t is in state and in
\* defaults.
C3_Witness ==
    /\ Len(calls) > 0
    /\ << "t" >> \in excludes
    /\ << "t" >> \in StateNames
    /\ << "t" >> \in DOMAIN defaults

\* C4 (Overlay precedence): the value rendered for a name is the default
\* exactly when the name has no key in state and is a key of defaults;
\* otherwise it is the value expanded from state.
C4_OverlayPrecedence ==
    \A c \in 1..Len(calls) :
        \A i \in 1..Len(calls[c].pieces) :
            LET p == calls[c].pieces[i]
            IN  /\ p.value = IF p.name \notin StateNames /\ p.name \in DOMAIN defaults
                             THEN defaults[p.name]
                             ELSE Expand(state.Primary.Attributes, p.name)
                /\ \E order \in Orders :
                      p.text = getAttributeString(p.name, p.value, order)

\* A call met a name that state has with an empty value and that defaults
\* has too, and rendered the empty value of state.
C4_Witness ==
    \E c \in 1..Len(calls) :
        \E i \in 1..Len(calls[c].pieces) :
            LET p == calls[c].pieces[i]
            IN  /\ p.name \in StateNames
                /\ p.name \in DOMAIN defaults
                /\ IsEmptyMap(p.value)
                /\ ~IsEmptyMap(defaults[p.name])

\* C5 (Dependency rendering): a non-empty dependency list is rendered as one
\* depends_on list whose elements are the quoted dependencies in their
\* order, each separated from the next; an empty one as no text.
C5_DependsList ==
    \A c \in 1..Len(calls) :
        LET deps == state.Dependencies
            ts == Lex(calls[c].depends, 1)
        IN  IF Len(deps) = 0
            THEN calls[c].depends = <<>>
            ELSE /\ [k \in 1..3 |-> ts[k].text]
                      = << << "d", "e", "p", "e", "n", "d", "s", "_", "o", "n" >>,
                           << "=" >>, << "[" >> >>
                 /\ ts[Len(ts)].type = "]"
                 /\ SelectSeq(SubSeq(ts, 4, Len(ts) - 1), LAMBDA t : t.type # ",")
                      = [k \in 1..Len(deps) |->
                            [type |-> "STRING",
                             text |-> << QUOTE >> \o deps[k] \o << QUOTE >>]]
                 /\ \A k \in 1..(Len(ts) - 1) :
                        ~(ts[k].type = "STRING" /\ ts[k + 1].type = "STRING")

\* C6 (Empty collections), as claimed: an empty list is rendered as
\* `name = [\n]\n` and an empty map as `name {\n}\n`.
C6_EmptyCollectionsRendered ==
    \A c \in 1..Len(calls) :
        \A i \in 1..Len(calls[c].pieces) :
            LET p == calls[c].pieces[i]
            IN  /\ IsEmptyList(p.value)
                     => p.text = p.name \o << " ", "=", " ", "[", "\n", "]", "\n" >>
                /\ IsEmptyMap(p.value)
                     => p.text = p.name \o << " ", "{", "\n", "}", "\n" >>

\* C6 (Empty collections), amended: a name whose value is an empty list or
\* an empty map contributes no text.
C6_EmptyCollectionsNoText ==
    \A c \in 1..Len(calls) :
        \A i \in 1..Len(calls[c].pieces) :
            LET p == calls[c].pieces[i]
            IN  IsEmptyList(p.value) \/ IsEmptyMap(p.value) => p.text = <<>>

\* A call met an empty list and an empty map, both found in state.
C6_Witness ==
    \E c \in 1..Len(calls) :
        \E i, j \in 1..Len(calls[c].pieces) :
            LET p == calls[c].pieces[i]
                q == calls[c].pieces[j]
            IN  /\ IsEmptyList(p.value) /\ p.name \in StateNames
                /\ IsEmptyMap(q.value) /\ q.name \in StateNames

\* C7 (Formatter failure): a call whose text the formatter rejects does not
\* return the empty string.
C7_FormatErrorSurfaced ==
    \A c \in 1..Len(calls) :
        calls[c].outcome = "returned" /\ PrinterFormat(calls[c].s).err
            => calls[c].ret # <<>>

\* C8 (Date carve-out): getPrimitiveAttributeString returns the empty text
\* exactly for the name date with the empty string, and the one line
\* `name = <value>\n` for every other pair.
C8_DateCarveOut ==
    ret.fn = "getPrimitiveAttributeString" =>
        LET carved == /\ arg.k = date
                      /\ arg.rawValue.kind = "string"
                      /\ Len(arg.rawValue.s) = 0
        IN  /\ (ret.val = <<>>) <=> carved
            /\ ~carved =>
                  /\ ret.val = arg.k \o << " ", "=", " " >>
                                 \o getPrimitiveValueString(arg.rawValue) \o << "\n" >>
                  /\ Cardinality({ i \in 1..Len(ret.val) : ret.val[i] = "\n" }) = 1

\* getPrimitiveAttributeString was called with date and "" and returned no
\* text.
C8_Witness ==
    /\ ret.fn = "getPrimitiveAttributeString"
    /\ arg.k = date
    /\ arg.rawValue.kind = "string"
    /\ Len(arg.rawValue.s) = 0
    /\ ret.val = <<>>

\* The ID with every delimiter replaced, position by position.
Replaced(rid) == [i \in 1..Len(rid) |-> IF rid[i] = "." THEN "_" ELSE rid[i]]

\* C9 (ID sanitization): sanitizeResourceID replaces every "." by "_" and
\* nothing else, so the result has no ".", the length of the ID, is the ID
\* when the ID has no ".", and is left as it is by a second pass; the text a
\* call builds starts with `resource "<type>" "<that ID>" {`.
C9_SanitizedID ==
    /\ ret.fn = "sanitizeResourceID" =>
          /\ ret.val = Replaced(arg.id)
          /\ Len(ret.val) = Len(arg.id)
          /\ \A i \in 1..Len(ret.val) : ret.val[i] # "."
          /\ (\A i \in 1..Len(arg.id) : arg.id[i] # ".") => ret.val = arg.id
          /\ sanitizeResourceID(ret.val) = ret.val
    /\ \A c \in 1..Len(calls) :
          HasPrefix(calls[c].s,
                    << "r", "e", "s", "o", "u", "r", "c", "e", " ", QUOTE >>
                    \o state.Type \o << QUOTE, " ", QUOTE >>
                    \o Replaced(state.Primary.ID) \o << QUOTE, " ", "{", "\n" >>)

\* A call was made on a resource whose ID has two delimiters.
C9_Witness ==
    /\ Len(calls) > 0
    /\ state.Primary.ID = << ".", "a", "." >>

\* strconv.Unquote of a literal made of the characters of RawValues.
RECURSIVE Unescape(_)
Unescape(body) ==
    IF body = <<>> THEN <<>>
    ELSE IF Head(body) = "\\" /\ Len(body) >= 2
    THEN << IF body[2] = "n" THEN "\n" ELSE body[2] >> \o Unescape(SubSeq(body, 3, Len(body)))
    ELSE << Head(body) >> \o Unescape(Tail(body))

\* C10 (Primitive value rendering): getPrimitiveValueString returns a
\* string between double quotes, escaped so that the closing quote is the
\* first unescaped one and unquoting gives the string back; a boolean as
\* "true" or "false" between double quotes; an integer of any of the five
\* widths as its bare decimal digits; anything else as unknown.  isPrimitive
\* is true for exactly the string, boolean and integer kinds.
C10_PrimitiveRendering ==
    /\ ret.fn = "getPrimitiveValueString" =>
          LET v == arg.rawValue
              out == ret.val
          IN  CASE v.kind = "string" ->
                     /\ Len(out) >= 2
                     /\ out[1] = QUOTE
                     /\ ScanString(out, 2) = Len(out)
                     /\ Unescape(SubSeq(out, 2, Len(out) - 1)) = v.s
                [] v.kind = "bool" ->
                     out = IF v.b THEN << QUOTE, "t", "r", "u", "e", QUOTE >>
                           ELSE << QUOTE, "f", "a", "l", "s", "e", QUOTE >>
                [] v.kind \in { "int", "int8", "int16", "int32", "int64" } ->
                     LET digits == IF v.n < 0 THEN Tail(out) ELSE out
                     IN  /\ (v.n < 0) <=> (out[1] = "-")
                         /\ Len(digits) >= 1
                         /\ \A i \in 1..Len(digits) : digits[i] \in DigitChars
                         /\ Len(digits) > 1 => digits[1] # "0"
                         /\ ParseNat(digits) = (IF v.n < 0 THEN -v.n ELSE v.n)
                [] OTHER -> out = << "u", "n", "k", "n", "o", "w", "n" >>
    /\ ret.fn = "isPrimitive" =>
          (ret.val <=> arg.rawValue.kind \in
                          { "string", "bool", "int", "int8", "int16", "int32", "int64" })

\* getPrimitiveValueString was called with an int8 and returned its digits.
C10_Witness ==
    /\ ret.fn = "getPrimitiveValueString"
    /\ arg.rawValue.kind = "int8"
    /\ arg.rawValue.n = -12
    /\ ret.val = << "-", "1", "2" >>

\* C11 (Frame of a render call): a call of GetResourceStateConfigString
\* leaves the caller's excludes set as it was with the name "id" added,
\* nothing else added and nothing removed, and leaves the defaults map and
\* the state (type, ID, attribute map, dependency list) as they were; a
\* second call therefore finds and leaves the excludes set of the first.
C11_Frame ==
    [][Len(calls') > Len(calls) =>
          /\ excludes' = excludes \cup { id }
          /\ \A n \in excludes' : n = id \/ n \in excludes
          /\ \A n \in excludes : n \in excludes'
          /\ defaults' = defaults
          /\ state' = state
          /\ (Len(calls) > 0 => excludes' = excludes)]_vars

\* Two calls have returned on a caller's set that held two names and not
\* id, with defaults and a dependency list that are not empty.
C11_Witness ==
    /\ Len(calls) = 2
    /\ \A c \in 1..2 : calls[c].outcome = "returned"
    /\ excludes = { << "n" >>, << "t" >>, id }
    /\ DOMAIN defaults # {}
    /\ Len(state.Dependencies) > 0


\* C12 (List shape dispatch never faults): getAttributeString called on a
\* list returns text whatever the list holds: a map first and a primitive
\* later, a primitive first and a map later, lists as elements.
C12_ListDispatchNeverFaults ==
    ret.fn = "getAttributeString" /\ arg.attrRawVal.kind = "list"
        => ret.outcome = "returned"

====
